---- MODULE Spec2Model ----
(***************************************************************************)
(* Model of the GIMP 3.0 plug-in ham-quick-guides.py: the procedure        *)
(* run_quick_guides, the host calls it makes on the image, and the         *)
(* floating-point arithmetic it computes guide positions with.             *)
(***************************************************************************)
EXTENDS Integers, Sequences, FiniteSets

(***************************************************************************)
(* Python floats.  `image_width / v_split` is a true division: its result  *)
(* is the IEEE-754 double nearest to the quotient (ties to even), and      *)
(* multiplying it by (i + 1) rounds again.  A positive double is modelled  *)
(* by its 53-bit significand M (2^52 <= M < 2^53) and its exponent: the    *)
(* value is M * 2^(exp - 52).  M is kept as three limbs,                   *)
(*     M = hi * 2^(2 * LimbBits) + mid * 2^LimbBits + lo,                  *)
(* so that no number of the model needs more than 31 bits.                 *)
(***************************************************************************)
MantBits == 53

LimbBits == 18

Limb == 2^LimbBits
\* the top limb holds the MantBits - 2 * LimbBits leading bits; its least value
HiOne == 2^(MantBits - 2 * LimbBits - 1)

\* Round the significand <<hi, mid, lo>>, followed by a guard bit and a
\* tail that is non-zero when sticky, to nearest, ties to even.
RoundFloat(hi, mid, lo, guard, sticky, exp) ==
    LET up   == guard = 1 /\ (sticky \/ lo % 2 = 1)
        lo1  == IF up THEN lo + 1 ELSE lo
        mid1 == mid + lo1 \div Limb
        hi1  == hi + mid1 \div Limb
    IN  IF hi1 = 2 * HiOne
        THEN [hi |-> HiOne, mid |-> 0, lo |-> 0, exp |-> exp + 1]
        ELSE [hi |-> hi1, mid |-> mid1 % Limb, lo |-> lo1 % Limb, exp |-> exp]

RECURSIVE ScaleUp(_, _, _)
\* the least s with a * 2^s >= b, as [num, shift]
ScaleUp(a, b, s) ==
    IF a >= b THEN [num |-> a, shift |-> s] ELSE ScaleUp(2 * a, b, s + 1)

RECURSIVE ScaleDown(_, _, _)
\* the greatest t with b * 2^t <= a, as [den, shift]
ScaleDown(a, b, t) ==
    IF 2 * b > a THEN [den |-> b, shift |-> t] ELSE ScaleDown(a, 2 * b, t + 1)

\* Python's a / b for integers 1 <= a, b < 2^13: the correctly rounded
\* quotient, by long division a limb at a time
TrueDiv(a, b) ==
    LET up   == ScaleUp(a, b, 0)
        down == ScaleDown(a, b, 0)
        num  == IF a >= b THEN a ELSE up.num
        den  == IF a >= b THEN down.den ELSE b
        exp  == IF a >= b THEN down.shift ELSE 0 - up.shift
        t1   == (num - den) * HiOne
        t2   == (t1 % den) * Limb
        t3   == (t2 % den) * Limb
        t4   == (t3 % den) * 2
    IN  RoundFloat(HiOne + t1 \div den, t2 \div den, t3 \div den,
                   t4 \div den, t4 % den # 0, exp)

RECURSIVE ExtraBits(_, _)
\* how many bits n has beyond the top limb's
ExtraBits(n, s) == IF n < 2 * HiOne THEN s ELSE ExtraBits(n \div 2, s + 1)

\* Python's x * k for a float x and an integer 1 <= k < 2^10: the rounded
\* product, multiplied limb by limb
FloatMul(x, k) ==
    LET plo  == x.lo * k
        pmid == x.mid * k + plo \div Limb
        phi  == x.hi * k + pmid \div Limb
        lo   == plo % Limb
        mid  == pmid % Limb
        s    == ExtraBits(phi, 0)
        cut  == 2^s
        out  == lo % cut
    IN  IF s = 0 THEN RoundFloat(phi, mid, lo, 0, FALSE, x.exp)
        ELSE RoundFloat(phi \div cut,
                        mid \div cut + (phi % cut) * (Limb \div cut),
                        lo \div cut + (mid % cut) * (Limb \div cut),
                        out \div (cut \div 2), out % (cut \div 2) # 0,
                        x.exp + s)

\* Python's int(x) for a float 0 <= x < 2^30: truncation toward zero
FloatToInt(x) ==
    LET top == MantBits - 2 * LimbBits - 1
    IN  IF x.exp < 0 THEN 0
        ELSE IF x.exp <= top THEN x.hi \div 2^(top - x.exp)
        ELSE x.hi * 2^(x.exp - top) + x.mid \div 2^(LimbBits - (x.exp - top))

\* the slip of reading `/` as Python 2 did: floor division before the product
SplitPosFloorDiv(dim, split, i) == (dim \div split) * (i + 1)

\* int((dim / split) * (i + 1)): the position of the (i+1)-th split guide
SplitPos(dim, split, i) == FloatToInt(FloatMul(TrueDiv(dim, split), i + 1))

\* the slip of rounding where the code truncates
CentrePosRounded(dim) == (dim + 1) \div 2

\* int(dim / 2): the position of a centre guide
CentrePos(dim) == FloatToInt(TrueDiv(dim, 2))

\* the slip of taking the last pixel for the far border
BorderPosLastPixel(dim, far) == IF far THEN dim - 1 ELSE 0

\* 0 and dim: the positions of the two border guides of an axis
BorderPos(dim, far) == IF far THEN dim ELSE 0

(***************************************************************************)
(* The procedure's parameters, as do_create_procedure declares them, and   *)
(* the inputs the model draws.                                             *)
(***************************************************************************)
MinSplit == 1
MaxSplitArg == 100

\* splits the small specifications draw: MinSplit..MaxSplit
MaxSplit == 3
\* image sides the small specifications draw, beside the two sample images
MaxSide == 2
\* image sides the wide specification draws: square images up to MaxDim
MaxDim == 30
\* invocations on one image: the first, and the host's repeats of it
MaxRuns == 2

RunModes == {"INTERACTIVE", "NONINTERACTIVE", "WITH_LAST_VALS"}
StatusCodes == {"SUCCESS", "CANCEL", "CALLING_ERROR", "EXECUTION_ERROR"}

SplitRange == MinSplit..MaxSplitArg
Splits == MinSplit..MaxSplit

\* a parameter bundle: h-split, v-split, make-centre, draw-borders
Configs ==
    [h_split : Splits, v_split : Splits,
     make_centre : BOOLEAN, draw_borders : BOOLEAN]

\* the bundles of the wide specification: one axis split into up to
\* MaxSplitArg bands, the other left whole; centre and border guides with
\* the small splits only
WideConfigs ==
    Configs
    \cup [h_split : {MinSplit}, v_split : SplitRange,
          make_centre : {FALSE}, draw_borders : {FALSE}]
    \cup [h_split : SplitRange, v_split : {MinSplit},
          make_centre : {FALSE}, draw_borders : {FALSE}]

\* image sizes <<width, height>>
Dims == ((1..MaxSide) \X (1..MaxSide)) \cup {<<900, 600>>, <<800, 400>>}
WideDims == {<<d, d>> : d \in 1..MaxDim}

VARIABLES
    imgW, imgH,         \* the image: its width and height (host-owned)
    vguides, hguides,   \* the image's guides, in the order they were added
    undoDepth,          \* the image's open undo groups
    dialog,             \* the procedure dialog: "none", "open", "destroyed"
    config,             \* the parameter bundle the host passes
    run_mode, image,    \* the invocation's run mode; whether an image is given
    pc,                 \* where run_quick_guides is
    h_split, v_split, make_centre, draw_borders,    \* its locals
    image_width, image_height, i,
    status,             \* what the invocation handed to the host
    calls,              \* the host calls of this invocation, in order
    runs                \* invocations started on this image

vars ==
    <<imgW, imgH, vguides, hguides, undoDepth, dialog, config, run_mode, image,
      pc, h_split, v_split, make_centre, draw_borders, image_width,
      image_height, i, status, calls, runs>>

host   == <<imgW, imgH, vguides, hguides, undoDepth, dialog, config>>
locals == <<h_split, v_split, make_centre, draw_borders, image_width, image_height, i>>
args   == <<run_mode, image, runs>>

\* what dialog.run() answers
Dismissed == 0
Confirmed == 1

\* a host call: its name, its argument (for dialog_run, its answer), and
\* whether it came back (TRUE) or raised (FALSE)
Call(op, arg, ok) == [op |-> op, arg |-> arg, ok |-> ok]

\* a host that keeps one guide per position
AddGuideOnce(guides, pos) ==
    IF \E j \in 1..Len(guides) : guides[j] = pos THEN guides ELSE Append(guides, pos)

\* the host's add_vguide / add_hguide: the guide joins the image's list
AddGuide(guides, pos) == Append(guides, pos)

InitOn(dims) ==
    /\ \E d \in dims : imgW = d[1] /\ imgH = d[2]
    /\ vguides = <<>> /\ hguides = <<>>
    /\ undoDepth = 0
    /\ dialog = "none"
    /\ config = [h_split |-> 3, v_split |-> 3, make_centre |-> TRUE, draw_borders |-> FALSE]
    /\ run_mode = "NONINTERACTIVE" /\ image = FALSE
    /\ pc = "idle"
    /\ h_split = 0 /\ v_split = 0 /\ make_centre = FALSE /\ draw_borders = FALSE
    /\ image_width = 0 /\ image_height = 0 /\ i = 0
    /\ status = "NONE"
    /\ calls = <<>>
    /\ runs = 0

Init == InitOn(Dims)
InitWide == InitOn(WideDims)

\* the host calls run_quick_guides(procedure, run_mode, image, drawables, config, data)
Enter(mode, img, cfg) ==
    /\ run_mode' = mode /\ image' = img /\ config' = cfg
    /\ pc' = "start"
    /\ h_split' = 0 /\ v_split' = 0 /\ make_centre' = FALSE /\ draw_borders' = FALSE
    /\ image_width' = 0 /\ image_height' = 0 /\ i' = 0
    /\ status' = "NONE"
    /\ calls' = <<>>
    /\ dialog' = "none"
    /\ runs' = runs + 1
    /\ UNCHANGED <<imgW, imgH, vguides, hguides, undoDepth>>

Invoke ==
    /\ pc = "idle"
    /\ \E mode \in RunModes, img \in BOOLEAN, cfg \in Configs : Enter(mode, img, cfg)

InvokeWide ==
    /\ pc = "idle"
    /\ \E cfg \in WideConfigs : Enter("NONINTERACTIVE", TRUE, cfg)

\* the host repeats the last successful run: same image, the values it used
Repeat ==
    /\ pc = "returned" /\ status = "SUCCESS"
    /\ runs < MaxRuns
    /\ Enter("WITH_LAST_VALS", TRUE, config)

\* leave run_quick_guides with a status code
Return(code) == pc' = "returned" /\ status' = code

\* the slip of going on after a dismissed dialog
DialogCancelIgnored ==
    /\ pc = "start" /\ run_mode = "INTERACTIVE"
    /\ calls' = calls \o <<Call("dialog_run", Dismissed, TRUE), Call("dialog_destroy", 0, TRUE)>>
    /\ dialog' = "destroyed"
    /\ pc' = "props"
    /\ UNCHANGED <<imgW, imgH, vguides, hguides, undoDepth, config, locals, args, status>>

\* lines 33-40: the dialog is dismissed
DialogCancel ==
    /\ pc = "start" /\ run_mode = "INTERACTIVE"
    /\ calls' = calls \o <<Call("dialog_run", Dismissed, TRUE), Call("dialog_destroy", 0, TRUE)>>
    /\ dialog' = "destroyed"
    /\ Return("CANCEL")
    /\ UNCHANGED <<imgW, imgH, vguides, hguides, undoDepth, config, locals, args>>

\* lines 33-42: the dialog is confirmed, with the values the user chose
DialogConfirm ==
    /\ pc = "start" /\ run_mode = "INTERACTIVE"
    /\ \E cfg \in Configs : config' = cfg
    /\ calls' = calls \o <<Call("dialog_run", Confirmed, TRUE), Call("dialog_destroy", 0, TRUE)>>
    /\ dialog' = "destroyed"
    /\ pc' = "props"
    /\ UNCHANGED <<imgW, imgH, vguides, hguides, undoDepth, locals, args, status>>

\* line 33: no dialog in the other run modes
NoDialog ==
    /\ pc = "start" /\ run_mode # "INTERACTIVE"
    /\ pc' = "props"
    /\ UNCHANGED <<host, locals, args, status, calls>>

\* lines 45-48
GetProperties ==
    /\ pc = "props"
    /\ h_split' = config.h_split /\ v_split' = config.v_split
    /\ make_centre' = config.make_centre /\ draw_borders' = config.draw_borders
    /\ calls' = calls \o <<Call("get_property", 0, TRUE)>>
    /\ pc' = "image"
    /\ UNCHANGED <<host, image_width, image_height, i, args, status>>

\* the slip of not checking the image
CheckImageSkipped ==
    /\ pc = "image"
    /\ pc' = "width"
    /\ UNCHANGED <<host, locals, args, calls, status>>

\* lines 50-51
CheckImage ==
    /\ pc = "image"
    /\ IF image THEN pc' = "width" /\ status' = status ELSE Return("CALLING_ERROR")
    /\ UNCHANGED <<host, locals, args, calls>>

\* line 53
GetWidth ==
    /\ pc = "width"
    /\ image_width' = imgW
    /\ calls' = Append(calls, Call("get_width", 0, TRUE))
    /\ pc' = "height"
    /\ UNCHANGED <<host, h_split, v_split, make_centre, draw_borders, image_height, i, args, status>>

\* line 54
GetHeight ==
    /\ pc = "height"
    /\ image_height' = imgH
    /\ calls' = Append(calls, Call("get_height", 0, TRUE))
    /\ pc' = "undo_start"
    /\ UNCHANGED <<host, h_split, v_split, make_centre, draw_borders, image_width, i, args, status>>

\* line 57
UndoGroupStart ==
    /\ pc = "undo_start"
    /\ undoDepth' = undoDepth + 1
    /\ calls' = Append(calls, Call("undo_group_start", 0, TRUE))
    /\ pc' = "vsplit" /\ i' = 0
    /\ UNCHANGED <<imgW, imgH, vguides, hguides, dialog, config,
                   h_split, v_split, make_centre, draw_borders,
                   image_width, image_height, args, status>>

\* line 63: guide_pos of the vertical loop
VSplitPos == SplitPos(image_width, v_split, i)

\* the copy-and-paste slip: the horizontal loop dividing the width
HSplitPosOfWidth == SplitPos(image_width, h_split, i)

\* line 69: guide_pos of the horizontal loop
HSplitPos == SplitPos(image_height, h_split, i)

\* what the next statement of the try block adds, when it adds a guide:
\* [op, pos], and the place after it
NextGuide ==
    CASE pc = "vsplit" /\ v_split > 1 /\ i < v_split - 1 ->
           [op |-> "add_vguide", pos |-> VSplitPos, to |-> "vsplit"]
      [] pc = "hsplit" /\ h_split > 1 /\ i < h_split - 1 ->
           [op |-> "add_hguide", pos |-> HSplitPos, to |-> "hsplit"]
      [] pc = "centre_v" /\ make_centre ->
           [op |-> "add_vguide", pos |-> CentrePos(image_width), to |-> "centre_h"]
      [] pc = "centre_h" ->
           [op |-> "add_hguide", pos |-> CentrePos(image_height), to |-> "border_v0"]
      [] pc = "border_v0" /\ draw_borders ->
           [op |-> "add_vguide", pos |-> BorderPos(image_width, FALSE), to |-> "border_h0"]
      [] pc = "border_h0" ->
           [op |-> "add_hguide", pos |-> BorderPos(image_height, FALSE), to |-> "border_vw"]
      [] pc = "border_vw" ->
           [op |-> "add_vguide", pos |-> BorderPos(image_width, TRUE), to |-> "border_hh"]
      [] pc = "border_hh" ->
           [op |-> "add_hguide", pos |-> BorderPos(image_height, TRUE), to |-> "undo_end"]
      [] OTHER -> [op |-> "none", pos |-> 0, to |-> pc]

\* an add_vguide / add_hguide call of the try block that succeeds
AddNextGuide ==
    /\ NextGuide.op # "none"
    /\ IF NextGuide.op = "add_vguide"
       THEN vguides' = AddGuide(vguides, NextGuide.pos) /\ hguides' = hguides
       ELSE hguides' = AddGuide(hguides, NextGuide.pos) /\ vguides' = vguides
    /\ calls' = Append(calls, Call(NextGuide.op, NextGuide.pos, TRUE))
    /\ pc' = NextGuide.to
    /\ i' = IF pc \in {"vsplit", "hsplit"} THEN i + 1 ELSE i
    /\ UNCHANGED <<imgW, imgH, undoDepth, dialog, config,
                   h_split, v_split, make_centre, draw_borders,
                   image_width, image_height, args, status>>

\* a statement of the try block that adds nothing: a loop that is over or
\* skipped, an option that is off
SkipTo(to) ==
    /\ NextGuide.op = "none"
    /\ pc' = to /\ i' = 0
    /\ UNCHANGED <<host, h_split, v_split, make_centre, draw_borders,
                   image_width, image_height, args, status, calls>>

\* lines 61-64
VSplitGuide == pc = "vsplit" /\ AddNextGuide
VSplitDone  == pc = "vsplit" /\ SkipTo("hsplit")
\* lines 67-70
HSplitGuide == pc = "hsplit" /\ AddNextGuide
HSplitDone  == pc = "hsplit" /\ SkipTo("centre_v")
\* lines 73-75
CentreGuides == pc \in {"centre_v", "centre_h"} /\ AddNextGuide
NoCentre     == pc = "centre_v" /\ SkipTo("border_v0")
\* lines 78-82
BorderGuides ==
    pc \in {"border_v0", "border_h0", "border_vw", "border_hh"} /\ AddNextGuide
NoBorders    == pc = "border_v0" /\ SkipTo("undo_end")

\* the slip of a try block that does not cover the call
AddGuideFailUncaught ==
    /\ NextGuide.op # "none"
    /\ calls' = Append(calls, Call(NextGuide.op, NextGuide.pos, FALSE))
    /\ pc' = "raised" /\ status' = "UNCAUGHT"
    /\ UNCHANGED <<host, locals, args>>

\* the slip of catching the failure around the single call and going on
AddGuideFailSwallowed ==
    /\ NextGuide.op # "none"
    /\ calls' = Append(calls, Call(NextGuide.op, NextGuide.pos, FALSE))
    /\ pc' = NextGuide.to
    /\ i' = IF pc \in {"vsplit", "hsplit"} THEN i + 1 ELSE i
    /\ UNCHANGED <<host, h_split, v_split, make_centre, draw_borders,
                   image_width, image_height, args, status>>

\* an add_vguide / add_hguide call of the try block raises: line 84
AddGuideFail ==
    /\ NextGuide.op # "none"
    /\ calls' = Append(calls, Call(NextGuide.op, NextGuide.pos, FALSE))
    /\ pc' = "except"
    /\ UNCHANGED <<host, locals, args, status>>

\* the slip of returning from the handler with the undo group open
ExceptLeavesOpen ==
    /\ pc = "except"
    /\ Return("EXECUTION_ERROR")
    /\ UNCHANGED <<host, locals, args, calls>>

\* lines 85-86
Except ==
    /\ pc = "except"
    /\ undoDepth' = undoDepth - 1
    /\ calls' = Append(calls, Call("undo_group_end", 0, TRUE))
    /\ Return("EXECUTION_ERROR")
    /\ UNCHANGED <<imgW, imgH, vguides, hguides, dialog, config, locals, args>>

\* lines 88-89
UndoGroupEnd ==
    /\ pc = "undo_end"
    /\ undoDepth' = undoDepth - 1
    /\ calls' = Append(calls, Call("undo_group_end", 0, TRUE))
    /\ Return("SUCCESS")
    /\ UNCHANGED <<imgW, imgH, vguides, hguides, dialog, config, locals, args>>

\* the statements of run_quick_guides when no host call fails
Body ==
    \/ NoDialog \/ GetProperties \/ CheckImage \/ GetWidth \/ GetHeight
    \/ UndoGroupStart
    \/ VSplitGuide \/ VSplitDone \/ HSplitGuide \/ HSplitDone
    \/ CentreGuides \/ NoCentre \/ BorderGuides \/ NoBorders
    \/ UndoGroupEnd

Next ==
    \/ Invoke \/ Repeat \/ DialogCancel \/ DialogConfirm
    \/ Body
    \/ AddGuideFail \/ Except

Spec == Init /\ [][Next]_vars

\* A host call outside the try block raises: nothing in run_quick_guides
\* catches it, and the exception reaches the host.
Raise(op) ==
    /\ calls' = Append(calls, Call(op, 0, FALSE))
    /\ pc' = "raised" /\ status' = "UNCAUGHT"
    /\ UNCHANGED <<host, locals, args>>

\* lines 45-48
GetPropertyFail == pc = "props" /\ Raise("get_property")
\* line 53
GetWidthFail == pc = "width" /\ Raise("get_width")
\* line 54
GetHeightFail == pc = "height" /\ Raise("get_height")
\* line 57
UndoGroupStartFail == pc = "undo_start" /\ Raise("undo_group_start")
\* line 85, inside the handler, and line 88, after the try block
UndoGroupEndFail == pc \in {"except", "undo_end"} /\ Raise("undo_group_end")

\* every host call the procedure makes on config and image may raise
NextHostFaults ==
    \/ Next
    \/ GetPropertyFail \/ GetWidthFail \/ GetHeightFail
    \/ UndoGroupStartFail \/ UndoGroupEndFail

SpecHostFaults == Init /\ [][NextHostFaults]_vars

NextWide == InvokeWide \/ Body

SpecWide == InitWide /\ [][NextWide]_vars

(***************************************************************************)
(* What the claims speak of, read off the state.                           *)
(***************************************************************************)
Returned == pc = "returned"
Finished == pc \in {"returned", "raised"}
Succeeded == Returned /\ status = "SUCCESS"

IsAddV(c) == c.op = "add_vguide" /\ c.ok
IsAddH(c) == c.op = "add_hguide" /\ c.ok
IsAdd(c) == c.op \in {"add_vguide", "add_hguide"}
Args(cs) == [j \in 1..Len(cs) |-> cs[j].arg]

\* the guides this invocation has added, in order
AddedV == Args(SelectSeq(calls, IsAddV))
AddedH == Args(SelectSeq(calls, IsAddH))

Count(op) == Cardinality({j \in 1..Len(calls) : calls[j].op = op})
FailedCalls == {j \in 1..Len(calls) : ~calls[j].ok}
DialogDismissed ==
    \E j \in 1..Len(calls) : calls[j].op = "dialog_run" /\ calls[j].arg = Dismissed

IsPrefix(p, q) == Len(p) <= Len(q) /\ SubSeq(q, 1, Len(p)) = p

RECURSIVE Times(_, _)
\* q repeated n times
Times(q, n) == IF n = 0 THEN <<>> ELSE Times(q, n - 1) \o q

\* floor(dim * k / split), in exact integer arithmetic
FloorPos(dim, split, k) == (dim * k) \div split

\* what the split loop of an axis adds when it runs to its end
SplitSeq(dim, split) == [k \in 1..(split - 1) |-> SplitPos(dim, split, k - 1)]
BorderSeq(dim) == IF draw_borders THEN <<0, dim>> ELSE <<>>
\* what a whole run adds on an axis, without and with the centre guide
PlainSeq(dim, split) == SplitSeq(dim, split) \o BorderSeq(dim)
FullSeq(dim, split) ==
    SplitSeq(dim, split)
    \o (IF make_centre THEN <<CentrePos(dim)>> ELSE <<>>)
    \o BorderSeq(dim)

\* q without its n-th element
Without(q, n) == SubSeq(q, 1, n - 1) \o SubSeq(q, n + 1, Len(q))

(***************************************************************************)
(* C1                                                                      *)
(***************************************************************************)
SplitsAsClaimed(g, dim, split) ==
    split >= 2 =>
        /\ Len(g) = split - 1
        /\ \A k \in 1..Len(g) :
              /\ g[k] = FloorPos(dim, split, k)
              /\ k > 1 => g[k - 1] < g[k]

SplitsAsComputed(g, dim, split) ==
    /\ Len(g) = split - 1
    /\ \A k \in 1..Len(g) :
          /\ \/ g[k] = FloorPos(dim, split, k)
             \/ g[k] = FloorPos(dim, split, k) - 1 /\ (dim * k) % split = 0
          /\ k > 1 => g[k - 1] <= g[k]
          /\ (k > 1 /\ dim >= split) => g[k - 1] < g[k]

\* C1 as stated: a successful run with make-centre and draw-borders off adds
\* exactly v_split - 1 vertical guides, the k-th at floor(W * k / v_split),
\* strictly increasing in k; likewise h_split over the height.
C1_AsStated ==
    (Succeeded /\ ~make_centre /\ ~draw_borders) =>
        /\ SplitsAsClaimed(AddedV, imgW, v_split)
        /\ SplitsAsClaimed(AddedH, imgH, h_split)

\* C1 amended: such a run adds exactly v_split - 1 vertical guides, the
\* k-th at int((W / v_split) * k) in double arithmetic, which is
\* floor(W * k / v_split), or one less where v_split divides W * k and the
\* rounded product falls short of the integer; the positions never
\* decrease, and increase strictly when W >= v_split; likewise h_split
\* over the height.
C1_SplitPositions ==
    (Succeeded /\ ~make_centre /\ ~draw_borders) =>
        /\ SplitsAsComputed(AddedV, imgW, v_split)
        /\ SplitsAsComputed(AddedH, imgH, h_split)

\* a run of 22 bands over 30 pixels, whose 11th guide is at 14, not 15
C1_Witness ==
    /\ Succeeded /\ ~make_centre /\ ~draw_borders
    /\ imgW = 30 /\ v_split = 22
    /\ Len(AddedV) = 21 /\ AddedV[11] = 14 /\ AddedV[10] = 13

(***************************************************************************)
(* C2                                                                      *)
(***************************************************************************)
NothingDone ==
    /\ Count("undo_group_start") = 0 /\ undoDepth = 0
    /\ AddedV = <<>> /\ AddedH = <<>>
    /\ vguides = <<>> /\ hguides = <<>>

\* C2 as stated: invoked with no image, whatever the run mode and the
\* dialog's outcome, the status is CALLING_ERROR, no undo group is opened
\* and no guide is added.
C2_AsStated ==
    (Returned /\ ~image) => (status = "CALLING_ERROR" /\ NothingDone)

\* C2 amended: invoked with no image, no undo group is ever opened and no
\* guide is added; the status is CALLING_ERROR, except that it is CANCEL
\* when the interactive dialog was dismissed.
C2_NoImage ==
    (pc # "idle" /\ ~image) =>
        /\ NothingDone
        /\ Returned =>
             status = IF DialogDismissed THEN "CANCEL" ELSE "CALLING_ERROR"

\* no image, interactive, the dialog confirmed: CALLING_ERROR
C2_Witness ==
    /\ Returned /\ ~image /\ run_mode = "INTERACTIVE"
    /\ status = "CALLING_ERROR" /\ Count("get_property") = 1

(***************************************************************************)
(* C3                                                                      *)
(***************************************************************************)
\* C3: every add_vguide / add_hguide call comes after undo_group_start and
\* before undo_group_end; an invocation that calls undo_group_start calls
\* undo_group_end exactly once, as its last call, before it returns, with
\* SUCCESS and with EXECUTION_ERROR alike; no undo group is open on return.
C3_UndoBracket ==
    /\ \A j \in 1..Len(calls) :
          IsAdd(calls[j]) =>
             /\ \E s \in 1..(j - 1) : calls[s].op = "undo_group_start"
             /\ \A e \in 1..(j - 1) : calls[e].op # "undo_group_end"
    /\ undoDepth = Count("undo_group_start") - Count("undo_group_end")
    /\ Returned =>
          /\ undoDepth = 0
          /\ Count("undo_group_start") <= 1
          /\ Count("undo_group_end") = Count("undo_group_start")
          /\ Count("undo_group_start") = 1 =>
                calls[Len(calls)].op = "undo_group_end"
          /\ status \in {"SUCCESS", "EXECUTION_ERROR"} <=>
                Count("undo_group_start") = 1

\* guides were added, a call failed, and the group was closed on return
C3_Witness ==
    /\ Returned /\ status = "EXECUTION_ERROR"
    /\ AddedV # <<>> /\ AddedH # <<>>
    /\ Count("undo_group_end") = 1 /\ undoDepth = 0

(***************************************************************************)
(* C4                                                                      *)
(***************************************************************************)
\* C4: in every reachable state every vertical guide of the image is at an
\* integer position in [0, W] and every horizontal guide in [0, H].
C4_GuidesInRange ==
    /\ \A j \in 1..Len(vguides) : vguides[j] \in 0..imgW
    /\ \A j \in 1..Len(hguides) : hguides[j] \in 0..imgH

\* a repeated run on the 800 x 400 image with every kind of guide on it
C4_Witness ==
    /\ Succeeded /\ runs = 2 /\ imgW = 800 /\ imgH = 400
    /\ h_split = 3 /\ v_split = 3 /\ make_centre /\ draw_borders
    /\ Len(hguides) = 10 /\ hguides[2] = 266 /\ hguides[10] = 400

(***************************************************************************)
(* C5                                                                      *)
(***************************************************************************)
\* C5 as stated: whichever host call fails, the invocation ends by
\* returning one of the four status codes.
C5_AsStated == Finished => status \in StatusCodes

\* C5 amended: a failing add_vguide or add_hguide is caught and, unless
\* undo_group_end then fails too, answered with EXECUTION_ERROR; a failing
\* get_property, get_width, get_height, undo_group_start or undo_group_end
\* is not caught: the exception reaches the host and no status is
\* returned.  With no failing call the status is SUCCESS, CANCEL or
\* CALLING_ERROR.
C5_CaughtFailures ==
    Finished =>
        /\ status \in StatusCodes <=> \A j \in FailedCalls : IsAdd(calls[j])
        /\ status = "EXECUTION_ERROR" <=>
              (FailedCalls # {} /\ \A j \in FailedCalls : IsAdd(calls[j]))
        /\ pc = "raised" =>
              /\ status = "UNCAUGHT"
              /\ ~calls[Len(calls)].ok
              /\ calls[Len(calls)].op \in
                    {"get_property", "get_width", "get_height",
                     "undo_group_start", "undo_group_end"}

\* a failing add_hguide, caught: EXECUTION_ERROR
C5_Witness ==
    /\ Returned /\ status = "EXECUTION_ERROR"
    /\ \E j \in FailedCalls : calls[j].op = "add_hguide"

(***************************************************************************)
(* C6                                                                      *)
(***************************************************************************)
\* C6: a successful run with make-centre on adds what the same run with
\* make-centre off adds, and one vertical guide at floor(W / 2) and one
\* horizontal guide at floor(H / 2) besides, whatever the other
\* parameters; 900 x 600 in thirds gives verticals 300, 600, 450 and
\* horizontals 200, 400, 300, six guides.
C6_CentreGuides ==
    /\ (Succeeded /\ ~make_centre) =>
          /\ AddedV = PlainSeq(imgW, v_split)
          /\ AddedH = PlainSeq(imgH, h_split)
    /\ (Succeeded /\ make_centre) =>
          /\ Len(AddedV) = Len(PlainSeq(imgW, v_split)) + 1
          /\ Len(AddedH) = Len(PlainSeq(imgH, h_split)) + 1
          /\ AddedV[v_split] = imgW \div 2
          /\ AddedH[h_split] = imgH \div 2
          /\ Without(AddedV, v_split) = PlainSeq(imgW, v_split)
          /\ Without(AddedH, h_split) = PlainSeq(imgH, h_split)
    /\ (Succeeded /\ make_centre /\ ~draw_borders /\ imgW = 900 /\ imgH = 600
          /\ h_split = 3 /\ v_split = 3) =>
          /\ AddedV = <<300, 600, 450>>
          /\ AddedH = <<200, 400, 300>>
          /\ Len(SelectSeq(calls, IsAdd)) = 6

C6_Witness ==
    /\ Succeeded /\ make_centre /\ ~draw_borders
    /\ imgW = 900 /\ imgH = 600 /\ h_split = 3 /\ v_split = 3
    /\ vguides = <<300, 600, 450>> /\ hguides = <<200, 400, 300>>

(***************************************************************************)
(* C7                                                                      *)
(***************************************************************************)
LastTwo(q) == SubSeq(q, Len(q) - 1, Len(q))

\* C7: a successful run with draw-borders on adds border guides at the
\* vertical positions 0 and W and the horizontal positions 0 and H, four
\* guides, after whatever the other parameters add; with both splits 1
\* and make-centre off they are the only guides (800 x 400: verticals
\* 0, 800, horizontals 0, 400).
C7_BorderGuides ==
    /\ (Succeeded /\ draw_borders) =>
          /\ Len(AddedV) = (v_split - 1) + (IF make_centre THEN 1 ELSE 0) + 2
          /\ Len(AddedH) = (h_split - 1) + (IF make_centre THEN 1 ELSE 0) + 2
          /\ LastTwo(AddedV) = <<0, imgW>>
          /\ LastTwo(AddedH) = <<0, imgH>>
          /\ (h_split = 1 /\ v_split = 1 /\ ~make_centre) =>
                AddedV = <<0, imgW>> /\ AddedH = <<0, imgH>>
    /\ (Succeeded /\ ~draw_borders) =>
          /\ Len(AddedV) = (v_split - 1) + (IF make_centre THEN 1 ELSE 0)
          /\ Len(AddedH) = (h_split - 1) + (IF make_centre THEN 1 ELSE 0)

C7_Witness ==
    /\ Succeeded /\ draw_borders /\ ~make_centre
    /\ h_split = 1 /\ v_split = 1 /\ imgW = 800 /\ imgH = 400
    /\ vguides = <<0, 800>> /\ hguides = <<0, 400>>

(***************************************************************************)
(* C8                                                                      *)
(***************************************************************************)
\* C8: after n successive successful invocations with the same parameters
\* the image holds n times the guides one invocation adds (twice for
\* n = 2), and no step of the procedure removes or reorders a guide that
\* is on the image: the guide lists only grow at their end.
C8_NotIdempotent ==
    /\ [](Succeeded =>
            /\ vguides = Times(AddedV, runs)
            /\ hguides = Times(AddedH, runs))
    /\ [][IsPrefix(vguides, vguides') /\ IsPrefix(hguides, hguides')]_vars

C8_Witness ==
    /\ Succeeded /\ runs = 2
    /\ imgW = 900 /\ v_split = 3 /\ make_centre /\ ~draw_borders
    /\ vguides = <<300, 600, 450, 300, 600, 450>>

(***************************************************************************)
(* C9                                                                      *)
(***************************************************************************)
AddFailed == \E j \in FailedCalls : IsAdd(calls[j])

\* C9: once an add_vguide or add_hguide call has failed, the invocation
\* adds no further guide, closes the undo group and returns
\* EXECUTION_ERROR; the guides added before the failing call are a prefix
\* of what a successful run adds, and they stay on the image.
C9_FailedAdd ==
    AddFailed =>
        /\ pc \in {"except", "returned"}
        /\ \A j \in FailedCalls : \A l \in (j + 1)..Len(calls) :
              calls[l].op = "undo_group_end" /\ calls[l].ok
        /\ IsPrefix(AddedV, FullSeq(imgW, v_split))
        /\ IsPrefix(AddedH, FullSeq(imgH, h_split))
        /\ AddedV # FullSeq(imgW, v_split) \/ AddedH # FullSeq(imgH, h_split)
        /\ vguides = Times(FullSeq(imgW, v_split), runs - 1) \o AddedV
        /\ hguides = Times(FullSeq(imgH, h_split), runs - 1) \o AddedH
        /\ Returned =>
              /\ status = "EXECUTION_ERROR"
              /\ undoDepth = 0
              /\ calls[Len(calls)].op = "undo_group_end"

\* three guides were added, the fourth call failed
C9_Witness ==
    /\ Returned /\ AddFailed /\ status = "EXECUTION_ERROR"
    /\ Len(AddedV) = 2 /\ Len(AddedH) = 1 /\ Len(vguides) = 2 /\ Len(hguides) = 1
    /\ h_split = 3 /\ v_split = 3

(***************************************************************************)
(* C10                                                                     *)
(***************************************************************************)
\* C10: the dialog is run only in INTERACTIVE mode, and then as the first
\* thing the procedure does; when it is dismissed the procedure returns
\* CANCEL with the dialog destroyed, no undo group opened and no guide
\* added, with or without an image; in the other run modes CANCEL is
\* never returned.
C10_Dialog ==
    /\ \A j \in 1..Len(calls) :
          calls[j].op = "dialog_run" => (run_mode = "INTERACTIVE" /\ j = 1)
    /\ (run_mode = "INTERACTIVE" /\ pc \notin {"idle", "start"}) =>
          (calls[1].op = "dialog_run" /\ dialog = "destroyed")
    /\ run_mode # "INTERACTIVE" => (dialog = "none" /\ status # "CANCEL")
    /\ DialogDismissed =>
          /\ Returned /\ status = "CANCEL"
          /\ dialog = "destroyed"
          /\ Len(calls) = 2 /\ calls[2].op = "dialog_destroy"
          /\ undoDepth = 0 /\ vguides = <<>> /\ hguides = <<>>
    /\ status = "CANCEL" => DialogDismissed

C10_Witness ==
    /\ Returned /\ status = "CANCEL" /\ image /\ dialog = "destroyed"
====
